---------------------------- MODULE Spec2Model ----------------------------
(***************************************************************************)
(* fix_ea (src/src/fix_ea/fix_ea.c): check / repair AFP extended           *)
(* attributes and append a null byte to extended attributes, for one       *)
(* object or for a directory tree.                                         *)
(*                                                                         *)
(* Strings that the program inspects byte by byte (paths, attribute        *)
(* values, names of directory entries) are sequences of character codes.   *)
(* An attribute name is the pair <<first ten characters, rest>>: the only  *)
(* operations the program applies to a name are strncmp(name, .., 10) and  *)
(* strcmp(name, attr).                                                     *)
(***************************************************************************)
EXTENDS Integers, Sequences, FiniteSets, TLC

(* ------------------------------ bounds -------------------------------- *)
\* longest attribute value stored before the program runs
MaxLen == 3
\* most attributes on one object
MaxAttrs == 2
\* how many times the same command line is run over the same storage
MaxRuns == 2
\* most positional arguments on the command line
MaxArgs == 2
\* most calls that fail (open, malloc, extattr_*) in one run of the command
MaxFaults == 2
\* most option words on the command line
MaxOpts == 3
\* most calls that fail in a run that begins with the option words
MaxOptFaults == 1
\* the same, in a run over a directory tree
MaxWalkFaults == 1

(* ------------------------- program constants -------------------------- *)
EX_OK == 0
EX_EA_CORRUPTED == 1
EX_USAGE == 64
EX_DATAERR == 65
EX_OSERR == 71

\* one bit of the flags word each; flags is the set of the bits that are set
F_NONE == {}
F_APPEND_NULL_ALL == 1
F_CHECK_AFP_EA == 2
F_DRY_RUN == 4
F_FIX_AFP_EA == 8
F_APPEND_NULL == 16
F_VERBOSE == 32
F_DEBUG == 64
F_RECURSIVE == 128

\* character codes
ChNul == 0
ChNewline == 10
ChSlash == 47
ChA == 65
ChF == 70
ChP == 80

\* the bytes an attribute value is made of before the program runs
Bytes == {ChNul, ChF, ChP}
\* what a heap cell that was never written may hold: zero, or a stale byte
HeapBytes == {ChNul, ChA}

\* the null pointer (no C string holds a NUL byte)
NULL == <<ChNul>>

(* --------------------------- bit arithmetic --------------------------- *)
RECURSIVE BitOr(_, _)
\* a | b on non-negative ints
BitOr(a, b) ==
    IF a = 0 THEN b
    ELSE IF b = 0 THEN a
    ELSE (IF (a % 2 = 1) \/ (b % 2 = 1) THEN 1 ELSE 0)
         + 2 * BitOr(a \div 2, b \div 2)

(* ----------------------------- sequences ------------------------------ *)
\* all sequences over S of length at most n
SeqsUpTo(S, n) == UNION {[1..k -> S] : k \in 0..n}

\* the sequences that list every element of the finite set S once
Perms(S) == {p \in [1..Cardinality(S) -> S] :
                \A i, j \in 1..Cardinality(S) : p[i] = p[j] => i = j}

(* ------------------------- attribute names ---------------------------- *)
\* the literal of strncmp(name, "DosStream.", 10)
DosStreamPrefix == "DosStream."
AttrRsrc == <<"DosStream.", "rsrc">>
AttrInfo == <<"DosStream.", "info">>
\* a user attribute that is not a stream ("DosStream_rsrc")
AttrOther == <<"DosStream_", "rsrc">>
Names == {AttrRsrc, AttrInfo, AttrOther}

\* the attribute values found on an object with a single attribute
Values == SeqsUpTo(Bytes, MaxLen)
\* the attribute values found on an object with several attributes
FewValues == {<<>>, <<ChNul, ChF, ChP>>, <<ChF, ChF, ChP>>}

\* one stored attribute
Attr(n, v) == [name |-> n, value |-> v]

\* the attribute lists one object may carry, in the order extattr_list_fd
\* reports them; names are unique on an object
AttrSets ==
    {<<>>}
    \cup {<<Attr(n, v)>> : n \in Names, v \in Values}
    \cup {s \in UNION {[1..k -> [name : Names, value : FewValues]] : k \in 2..MaxAttrs} :
            \A a, b \in 1..Len(s) : s[a].name = s[b].name => a = b}

(* ---------------------------- file system ----------------------------- *)
NameA == <<97>>
NameB == <<98>>
PathD == <<100>>
PathE == <<101>>
Child(p, n) == p \o <<ChSlash>> \o n
PathDA == Child(PathD, NameA)
PathDB == Child(PathD, NameB)
PathDAB == Child(PathDA, NameB)
EntryNames == {NameA, NameB}
Paths == {PathD, PathE, PathDA, PathDB, PathDAB}

(* ----------------------------- variables ------------------------------ *)
VARIABLES
    \* environment
    kind,        \* Paths -> "none" | "file" | "dir"
    denied,      \* the directories that cannot be read
    storage,     \* Paths -> the attributes stored on the object
    stdin,       \* [open, tty, data]: is fd 0 open, is it a terminal, and the
                 \* bytes read() returns
    argv,        \* the positional arguments (argv after optind)
    \* getopt
    optv,        \* the option words getopt has still to return
    ch,          \* what getopt returned last ("-1" once the options are over)
    optarg,      \* the argument of that option
    \* resources
    fdtab,       \* the descriptors that are open in the process
    mem,         \* the heap of this cycle, and the calls that touched it
    \* main
    flags, attr, pc, path, rp, mret,
    \* do_ea_stuff_recursive
    fts,         \* the FTS handle: "none", "open" or "closed"
    tree,        \* the entries fts_read has still to return
    rval,
    \* do_ea_stuff_single
    caller, cur, fd, ret, setret, xlist, afp_list, append_list,
    \* fix_afp_list / fix_append_list
    i, l_ret, l_setret,
    \* history
    faults,      \* how many more calls may fail in this run
    run,         \* which run of the command this is
    start,       \* storage when this run began
    prev,        \* one record per finished run
    snap,        \* the attribute set as get_extended_attributes built it
    writes,      \* the extattr_set_fd calls of this run
    visited,     \* the paths do_ea_stuff_single was called with in this run
    results,     \* what those calls returned
    pass_ret,    \* what fix_afp_list and fix_append_list returned in this cycle
    out          \* the lines printed under -v

env == <<kind, denied, storage, stdin, argv>>
mainv == <<flags, attr, pc, path, rp, mret>>
walkv == <<fts, tree, rval>>
cyclev == <<caller, cur, fd, ret, setret, xlist, afp_list, append_list>>
loopv == <<i, l_ret, l_setret>>
histv == <<faults, run, start, prev, snap, writes, visited, results, pass_ret, out>>
optsv == <<optv, ch, optarg>>
resv == <<fdtab, mem>>
vars == <<env, optsv, resv, mainv, walkv, cyclev, loopv, histv>>

Has(f) == f \in flags

(* ----------------------------- resources ------------------------------ *)
\* the descriptors the process starts with: stdout, stderr, and stdin unless
\* the command was started with descriptor 0 closed
InitFds == IF stdin.open THEN {0, 1, 2} ELSE {1, 2}

\* what open() returns when it succeeds: the lowest descriptor not in use
LowestFree(t) == CHOOSE n \in 0..Cardinality(t) : n \notin t /\ \A m \in 0..(n - 1) : m \in t

\* a block malloc returned: the list of names (buf), or the name, the value or
\* the struct xattr of the record called n; a value block is told from the one
\* that replaces it by its size
Block(k, n, l) == [kind |-> k, name |-> n, len |-> l]
ListBuf == Block("buf", <<"", "">>, 0)
\* the three blocks free_extended_attributes frees for the record x
BlocksOf(x) == {Block("name", x.name, 0), Block("value", x.name, x.length),
                Block("xptr", x.name, 0)}

\* a store into a heap block of size bytes at offset index
Store(size, index) == [size |-> size, index |-> index]

\* no block allocated, none freed twice, no store, no close, no extattr_* call
InitMem == [live |-> {}, twice |-> {}, stores |-> {}, closes |-> 0,
            ops |-> {}, read |-> "none", failed |-> {}]

\* free(b) for every block of bs
Free(m, bs) == [m EXCEPT !.live = @ \ bs, !.twice = @ \cup (bs \ m.live)]

\* the outcomes of a call that can fail: TRUE is success
Outcomes == IF faults > 0 THEN BOOLEAN ELSE {TRUE}
\* the fault budget after a call that ended with ok
Spent(ok) == IF ok THEN faults ELSE faults - 1
KindOf(p) == IF p \in Paths THEN kind[p] ELSE "none"

(* --------------------------- command lines ---------------------------- *)
\* an option word of the command line: the option character and its argument
Opt(c, a) == [opt |-> c, arg |-> a]

\* the option characters the switch of main has a case for
Handled == {"a", "c", "C", "d", "f", "n", "r", "v"}

\* the option words a command line is made of: every option of the switch,
\* and -p, which the option string takes and the switch has no case for
OptWords == {Opt(c, NULL) : c \in {"a", "c", "C", "d", "f", "r", "v"}}
            \cup {Opt("n", AttrRsrc), Opt("p", AttrRsrc)}

\* the names -n is given
AttrArgs == {AttrRsrc}

\* the flags words and attr values the getopt loop of main can end with:
\* -c and -f clear each other, -a sets both append bits and clears attr,
\* -n sets attr and F_APPEND_NULL and clears F_APPEND_NULL_ALL
Modes(bits) ==
    {<<fl, a>> \in (SUBSET bits) \X (AttrArgs \cup {NULL}) :
        /\ ~(F_CHECK_AFP_EA \in fl /\ F_FIX_AFP_EA \in fl)
        /\ F_APPEND_NULL_ALL \in fl => F_APPEND_NULL \in fl
        /\ a = NULL <=> (F_APPEND_NULL \in fl => F_APPEND_NULL_ALL \in fl)}

\* main, lines 448-452, and the locals of the functions it calls
InitLocals ==
    /\ path = NULL /\ rp = NULL /\ mret = 0
    /\ fdtab = InitFds /\ mem = InitMem
    /\ fts = "none" /\ tree = <<>> /\ rval = 0
    /\ caller = "main" /\ cur = NULL /\ fd = 0 /\ ret = 0 /\ setret = 0
    /\ xlist = <<>> /\ afp_list = <<>> /\ append_list = <<>>
    /\ i = 0 /\ l_ret = 0 /\ l_setret = 0
    /\ run = 1 /\ start = storage /\ prev = <<>> /\ snap = <<>>
    /\ writes = <<>> /\ visited = <<>> /\ results = <<>>
    /\ pass_ret = [afp |-> <<>>, app |-> <<>>] /\ out = <<>>

\* main past the getopt loop (line 505): no option word is left, getopt
\* returned -1
InitMain ==
    /\ pc = "stdin" /\ optv = <<>> /\ ch = "-1" /\ optarg = NULL
    /\ InitLocals

\* stdin is a terminal
Terminal == [open |-> TRUE, tty |-> TRUE, data |-> <<>>]
\* descriptor 0 is closed: isatty fails and read returns -1
Closed == [open |-> FALSE, tty |-> FALSE, data |-> <<>>]
\* stdin is a pipe that delivers d
Piped(d) == [open |-> TRUE, tty |-> FALSE, data |-> d]

\* the file PathE, carrying the attributes s, named on the command line
OneFile(s) ==
    /\ kind = [p \in Paths |-> IF p = PathE THEN "file" ELSE "none"]
    /\ denied = {}
    /\ storage = [p \in Paths |-> IF p = PathE THEN s ELSE <<>>]
    /\ argv = <<PathE>>

\* one file with any attribute set, any mode
Init ==
    /\ \E s \in AttrSets : OneFile(s)
    /\ stdin \in {Terminal, Closed}
    /\ \E m \in Modes({F_APPEND_NULL_ALL, F_CHECK_AFP_EA, F_DRY_RUN, F_FIX_AFP_EA,
                       F_APPEND_NULL}) :
          flags = m[1] /\ attr = m[2]
    /\ faults = MaxFaults
    /\ InitMain

\* one file with at most one attribute, any mode, with or without -v
InitRerun ==
    /\ \E s \in {<<>>} \cup {<<Attr(n, v)>> : n \in Names, v \in FewValues} : OneFile(s)
    /\ stdin = Terminal
    /\ \E m \in Modes({F_APPEND_NULL_ALL, F_CHECK_AFP_EA, F_DRY_RUN, F_FIX_AFP_EA,
                       F_APPEND_NULL, F_VERBOSE}) :
          flags = m[1] /\ attr = m[2]
    /\ faults = MaxFaults
    /\ InitMain

\* a whole command line over the file PathE carrying two corrupted streams:
\* any option words, with or without the file named
InitOpts ==
    /\ kind = [p \in Paths |-> IF p = PathE THEN "file" ELSE "none"]
    /\ denied = {}
    /\ storage = [p \in Paths |->
                    IF p = PathE
                    THEN <<Attr(AttrRsrc, <<ChNul, ChF, ChP>>), Attr(AttrInfo, <<ChNul, ChF, ChP>>)>>
                    ELSE <<>>]
    /\ stdin = Terminal
    /\ argv \in {<<>>, <<PathE>>}
    /\ optv \in SeqsUpTo(OptWords, MaxOpts)
    /\ pc = "start" /\ flags = F_NONE /\ attr = NULL /\ ch = "" /\ optarg = NULL
    /\ faults = MaxOptFaults
    /\ InitLocals

\* the attributes of a file in the tree: none, or one corrupted stream
WalkAttrSets == {<<>>, <<Attr(AttrRsrc, <<ChNul, ChF, ChP>>)>>}

\* the directory PathD holding a (nothing, a file, or a directory with the
\* file b in it, readable or not) and b (nothing, or a file with or without a
\* corrupted stream), and the file PathE beside it; any line on stdin, any
\* positional arguments, -c or -a, with or without -r
InitWalk ==
    /\ \E ka \in {"none", "file", "dir"}, kb \in {"none", "file"} :
         kind = [p \in Paths |->
                   IF p = PathD THEN "dir"
                   ELSE IF p = PathE THEN "file"
                   ELSE IF p = PathDA THEN ka
                   ELSE IF p = PathDB THEN kb
                   ELSE IF ka = "dir" THEN "file" ELSE "none"]
    /\ denied \in SUBSET {p \in {PathDA} : kind[p] = "dir"}
    /\ \E s \in WalkAttrSets :
         storage = [p \in Paths |-> IF p = PathDB /\ kind[p] = "file" THEN s ELSE <<>>]
    /\ stdin \in {Terminal, Closed}
                 \cup {Piped(d) : d \in {PathD \o <<ChNewline>>, PathE \o <<ChNewline>>}}
    /\ argv \in SeqsUpTo({PathD, PathE}, MaxArgs)
    /\ \E m \in Modes({F_CHECK_AFP_EA}) \cup Modes({F_APPEND_NULL_ALL, F_APPEND_NULL}),
          r \in SUBSET {F_RECURSIVE} :
          m[1] # {} /\ flags = m[1] \cup r /\ attr = m[2]
    /\ faults = MaxWalkFaults
    /\ InitMain

(* --------------------------- host primitives -------------------------- *)
\* extattr_set_fd(fd, EXTATTR_NAMESPACE_USER, name, data, length): the stored
\* attribute of that name now holds data (created when absent)
SetAttr(st, n, data) ==
    IF \E k \in 1..Len(st) : st[k].name = n
    THEN [k \in 1..Len(st) |-> IF st[k].name = n THEN Attr(n, data) ELSE st[k]]
    ELSE Append(st, Attr(n, data))

\* the directory entries readdir may report for p, in any order
Children(p) == {q \in Paths : KindOf(q) # "none" /\ \E n \in EntryNames : q = Child(p, n)}
ReadDir(p) == IF p \in denied THEN {<<>>} ELSE Perms(Children(p))

\* strcoll in the C locale: <0, 0, >0 as a sorts before, with, after b
RECURSIVE strcoll(_, _)
strcoll(a, b) ==
    IF a = <<>> /\ b = <<>> THEN 0
    ELSE IF a = <<>> THEN -1
    ELSE IF b = <<>> THEN 1
    ELSE IF Head(a) < Head(b) THEN -1
    ELSE IF Head(a) > Head(b) THEN 1
    ELSE strcoll(Tail(a), Tail(b))

(* ------------------------------ fts ----------------------------------- *)
\* an FTSENT: fts_path (= fts_accpath here), fts_name, and whether this is the
\* second, post-order visit of a directory
Ent(p, n, post) == [path |-> p, name |-> n, post |-> post]

fts_compare(s1, s2) == strcoll(s1.name, s2.name)

RECURSIVE FtsInsert(_, _)
FtsInsert(e, s) ==
    IF s = <<>> THEN <<e>>
    ELSE IF fts_compare(e, Head(s)) <= 0 THEN <<e>> \o s
    ELSE <<Head(s)>> \o FtsInsert(e, Tail(s))

\* fts_sort: the entries of one level ordered by the comparison function
RECURSIVE fts_sort(_)
fts_sort(s) == IF s = <<>> THEN <<>> ELSE FtsInsert(Head(s), fts_sort(Tail(s)))

\* fts_info of an entry under FTS_LOGICAL
FtsInfo(e) ==
    IF e.post THEN (IF e.path \in denied THEN "DNR" ELSE "DP")
    ELSE IF KindOf(e.path) = "dir" THEN "D"
    ELSE IF KindOf(e.path) = "file" THEN "F"
    ELSE "NS"

(* ------------------------- get_extended_attributes -------------------- *)
\* the loop of get_extended_attributes over the reported names: a record for
\* every name with the prefix for which no call failed (skip: the positions
\* at which a malloc or an extattr_get_fd failed)
HasPrefixAny(n) == n[1] \in {DosStreamPrefix, "DosStream_"}
\* strncmp(name, "DosStream.", 10) == 0
HasPrefix(n) == n[1] = DosStreamPrefix

\* ch, the length byte in front of a name in the list extattr_list_fd fills
NameLen(n) == Len(n[1]) + Len(n[2])

\* name = malloc(ch); name[ch] = '\0', lines 121-127
NameTerminator(n) == Store(NameLen(n), NameLen(n))

RECURSIVE ReadFrom(_, _, _)
ReadFrom(st, k, skip) ==
    IF k > Len(st) THEN <<>>
    ELSE (IF HasPrefix(st[k].name) /\ k \notin skip
          THEN <<[name |-> st[k].name, value |-> st[k].value,
                  length |-> Len(st[k].value)]>>
          ELSE <<>>) \o ReadFrom(st, k + 1, skip)

get_extended_attributes(st, skip) == ReadFrom(st, 1, skip)

ReadResultStrict(how) == IF how = "ok" THEN 0 ELSE -1
\* what get_extended_attributes returns: EX_OK when the size query fails
\* (line 101), -1 when the malloc of the list or the call that fills it fails
\* (lines 105, 112), 0 after the loop (line 168)
ReadResult(how) == IF how \in {"nomem", "nofetch"} THEN -1 ELSE 0

(* ------------------------------ get_afp_list -------------------------- *)
AFP_EA_CORRUPTED(v) == v[1] = ChNul /\ v[2] = ChF /\ v[3] = ChP

IsAfpLong(x) == x.length > 3 /\ AFP_EA_CORRUPTED(x.value)
IsAfpLoose(x) == x.length >= 3 /\ x.value[2] = ChF /\ x.value[3] = ChP
\* the test of get_afp_list on one record
IsAfp(x) == x.length >= 3 /\ AFP_EA_CORRUPTED(x.value)

RECURSIVE AfpFrom(_, _)
AfpFrom(xl, k) ==
    IF k > Len(xl) THEN <<>>
    ELSE (IF IsAfp(xl[k]) THEN <<k>> ELSE <<>>) \o AfpFrom(xl, k + 1)

\* the afp_list built over xlist: the positions in xlist of its members
get_afp_list(xl) == AfpFrom(xl, 1)

(* ----------------------------- get_append_list ------------------------ *)
RECURSIVE AppendFrom(_, _, _)
AppendFrom(xl, k, a) ==
    IF k > Len(xl) THEN <<>>
    ELSE IF a = NULL THEN <<k>> \o AppendFrom(xl, k + 1, a)
    ELSE IF xl[k].name = a THEN <<k>>
    ELSE AppendFrom(xl, k + 1, a)

get_append_list_all(xl, a) == AppendFrom(xl, 1, NULL)
\* the append_list built over xlist: the positions in xlist of its members
get_append_list(xl, a) == AppendFrom(xl, 1, a)

(* ------------------------ fix_afp_list, fix_append_list --------------- *)
\* ret after the extattr_set_fd call that returned sr, lines 234-242 and 317-325
SetResultIgnore(r, sr) == BitOr(r, EX_OK)
SetResult(r, sr) == IF sr < 0 THEN BitOr(r, EX_EA_CORRUPTED) ELSE BitOr(r, EX_OK)

\* the test of lines 241 and 324: the record counts as fixed / appended
Reported(sr, fl) == sr > 0 \/ F_DRY_RUN \in fl

AfpWritesAlways(fl) == F_FIX_AFP_EA \in fl
\* fix_afp_list rewrites a record: -f without -C
AfpWrites(fl) == F_FIX_AFP_EA \in fl /\ F_DRY_RUN \notin fl

\* fix_append_list grows and rewrites a record: append without -C
AppendWrites(fl) == F_APPEND_NULL \in fl /\ F_DRY_RUN \notin fl

RepairedNul(v) == [v EXCEPT ![1] = ChNul]
\* *((char *)xptr->value) = 'A'
Repaired(v) == [v EXCEPT ![1] = ChA]

\* buf = malloc(length + 1); memcpy(buf, value, length); buf[length + 1] = 0:
\* the byte at index length is never written and holds what the heap held
Grown(v, length, junk) == SubSeq(v, 1, length) \o <<junk>>

Write(p, pass, n, data, ok) ==
    [path |-> p, pass |-> pass, name |-> n, data |-> data, ok |-> ok]

(* -------------------------------- main -------------------------------- *)
OptionNoClear(fl, at, o, dup) ==
    CASE o.opt = "a" -> <<fl \cup {F_APPEND_NULL_ALL, F_APPEND_NULL}, at>>
      [] o.opt = "c" -> <<fl \cup {F_CHECK_AFP_EA}, at>>
      [] o.opt = "C" -> <<fl \cup {F_DRY_RUN}, at>>
      [] o.opt = "d" -> <<fl \cup {F_DEBUG}, at>>
      [] o.opt = "f" -> <<fl \cup {F_FIX_AFP_EA}, at>>
      [] o.opt = "n" -> <<fl \cup {F_APPEND_NULL}, IF dup THEN o.arg ELSE NULL>>
      [] o.opt = "r" -> <<fl \cup {F_RECURSIVE}, at>>
      [] o.opt = "v" -> <<fl \cup {F_VERBOSE}, at>>
      [] OTHER -> <<fl, at>>
\* the switch of main, lines 459-502: flags and attr after the option o, given
\* flags fl and attr at before it; dup: strdup(optarg) returned a copy
Option(fl, at, o, dup) ==
    CASE o.opt = "a" -> <<fl \cup {F_APPEND_NULL_ALL, F_APPEND_NULL}, NULL>>
      [] o.opt = "c" -> <<(fl \cup {F_CHECK_AFP_EA}) \ {F_FIX_AFP_EA}, at>>
      [] o.opt = "C" -> <<fl \cup {F_DRY_RUN}, at>>
      [] o.opt = "d" -> <<fl \cup {F_DEBUG}, at>>
      [] o.opt = "f" -> <<(fl \cup {F_FIX_AFP_EA}) \ {F_CHECK_AFP_EA}, at>>
      [] o.opt = "n" -> <<(fl \cup {F_APPEND_NULL}) \ {F_APPEND_NULL_ALL},
                          IF dup THEN o.arg ELSE NULL>>
      [] o.opt = "r" -> <<fl \cup {F_RECURSIVE}, at>>
      [] o.opt = "v" -> <<fl \cup {F_VERBOSE}, at>>
      [] OTHER -> <<fl, at>>

\* main, lines 454-456: without any argument the usage text is printed
MainArgc ==
    /\ pc = "start"
    /\ IF Len(optv) + Len(argv) = 0
       THEN pc' = "exit" /\ mret' = EX_USAGE
       ELSE pc' = "getopt" /\ mret' = mret
    /\ UNCHANGED <<optsv, resv, env, flags, attr, path, rp, walkv, cyclev, loopv, histv>>

\* one turn of the getopt loop, lines 458-503, and its end, lines 505-506
Getopt ==
    /\ pc = "getopt"
    /\ IF optv = <<>>
       THEN /\ ch' = "-1" /\ pc' = "stdin"
            /\ UNCHANGED <<optv, optarg, flags, attr, mret, faults>>
       ELSE LET o == Head(optv)
            IN \E dup \in IF o.opt = "n" THEN Outcomes ELSE {TRUE} :
                 /\ ch' = o.opt /\ optarg' = o.arg /\ optv' = Tail(optv)
                 /\ flags' = Option(flags, attr, o, dup)[1]
                 /\ attr' = Option(flags, attr, o, dup)[2]
                 /\ faults' = Spent(dup)
                 /\ IF o.opt \in Handled
                    THEN pc' = pc /\ mret' = mret
                    ELSE pc' = "exit" /\ mret' = EX_USAGE
    /\ UNCHANGED <<resv, env, path, rp, walkv, cyclev, loopv,
                   run, start, prev, snap, writes, visited, results, pass_ret, out>>

\* main, lines 508-521: the path is the line read from a stdin that is not a
\* terminal (its last byte cut off), else the first positional argument
MainReadStdin ==
    /\ pc = "stdin"
    /\ LET nread == Len(stdin.data)
           line == IF ~stdin.tty /\ nread > 0
                   THEN SubSeq(stdin.data, 1, nread - 1) ELSE NULL
           p == IF line # NULL THEN line
                ELSE IF argv # <<>> THEN argv[1] ELSE NULL
       IN /\ path' = p
          /\ IF p = NULL
             THEN pc' = "exit" /\ mret' = EX_USAGE
             ELSE pc' = "realpath" /\ mret' = mret
    /\ UNCHANGED <<optsv, resv, env, flags, attr, rp, walkv, cyclev, loopv, histv>>

\* main, lines 523-527
MainRealpath ==
    /\ pc = "realpath"
    /\ IF KindOf(path) = "none"
       THEN rp' = rp /\ mret' = EX_OSERR /\ pc' = "exit"
       ELSE rp' = path /\ mret' = mret /\ pc' = "dispatch"
    /\ UNCHANGED <<optsv, resv, env, flags, attr, path, walkv, cyclev, loopv, histv>>

\* entry of do_ea_stuff_single(p, attr, flags), lines 364-369
Call(p, who) ==
    /\ caller' = who /\ cur' = p /\ fd' = 0 /\ ret' = 0 /\ setret' = 0
    /\ xlist' = <<>> /\ afp_list' = <<>> /\ append_list' = <<>>
    /\ snap' = <<>> /\ pass_ret' = [afp |-> <<>>, app |-> <<>>]
    /\ mem' = InitMem
    /\ visited' = Append(visited, p)
    /\ pc' = "open"

\* main, line 548
StartSingle ==
    /\ pc = "dispatch" /\ ~Has(F_RECURSIVE)
    /\ Call(rp, "main")
    /\ UNCHANGED <<optsv, fdtab, env, flags, attr, path, rp, mret, walkv, loopv,
                   faults, run, start, prev, writes, results, out>>

\* the root entries fts_open builds from the argument vector it is given
Roots(paths) == [k \in 1..Len(paths) |-> Ent(paths[k], paths[k], FALSE)]

\* main, lines 529-545, and do_ea_stuff_recursive, lines 423-426: the walk is
\* opened on argv
StartRecursive ==
    /\ pc = "dispatch" /\ Has(F_RECURSIVE)
    /\ IF KindOf(rp) # "dir"
       THEN mret' = EX_USAGE /\ pc' = "exit" /\ UNCHANGED <<walkv, faults>>
       ELSE \E opened \in Outcomes :
              /\ faults' = Spent(opened)
              /\ IF opened
                 THEN fts' = "open" /\ tree' = fts_sort(Roots(argv)) /\ rval' = 0
                      /\ mret' = mret /\ pc' = "fts"
                 ELSE mret' = EX_OSERR /\ pc' = "exit" /\ UNCHANGED walkv
    /\ UNCHANGED <<optsv, resv, env, flags, attr, path, rp, cyclev, loopv,
                   run, start, prev, snap, writes, visited, results, pass_ret, out>>

(* ------------------------ do_ea_stuff_recursive ----------------------- *)
\* one fts_read and the switch on fts_info, lines 428-439: FTS_D and FTS_F
\* are processed, every other kind of entry is passed over
FtsRead ==
    /\ pc = "fts" /\ tree # <<>>
    /\ LET e == Head(tree)
           info == FtsInfo(e)
       IN /\ IF info = "D"
             THEN \E order \in ReadDir(e.path) :
                    tree' = fts_sort([k \in 1..Len(order) |->
                                        Ent(order[k],
                                            SubSeq(order[k], Len(e.path) + 2, Len(order[k])),
                                            FALSE)])
                            \o <<Ent(e.path, e.name, TRUE)>> \o Tail(tree)
             ELSE tree' = Tail(tree)
          /\ IF info \in {"D", "F"}
             THEN Call(e.path, "fts")
             ELSE UNCHANGED <<cyclev, pc, snap, pass_ret, visited, mem>>
    /\ UNCHANGED <<optsv, fdtab, env, flags, attr, path, rp, mret, fts, rval, loopv,
                   faults, run, start, prev, writes, results, out>>

\* fts_read returned NULL: lines 441-442 and main, line 545
FtsClose ==
    /\ pc = "fts" /\ tree = <<>>
    /\ fts' = "closed" /\ mret' = rval /\ pc' = "exit"
    /\ UNCHANGED <<optsv, resv, env, flags, attr, path, rp, tree, rval, cyclev, loopv, histv>>

(* -------------------------- do_ea_stuff_single ------------------------ *)
\* lines 371-375
Open ==
    /\ pc = "open"
    /\ \E ok \in Outcomes :
         /\ faults' = Spent(ok)
         /\ IF ok
            THEN /\ fd' = LowestFree(fdtab) /\ fdtab' = fdtab \cup {fd'}
                 /\ ret' = ret /\ pc' = "read"
            ELSE fd' = -1 /\ fdtab' = fdtab /\ ret' = EX_OSERR /\ pc' = "cleanup"
    /\ UNCHANGED <<optsv, mem, env, flags, attr, path, rp, mret, walkv, caller, cur, setret,
                   xlist, afp_list, append_list, loopv,
                   run, start, prev, snap, writes, visited, results, pass_ret, out>>

\* lines 377-380 with get_extended_attributes, lines 100-168. how: the size
\* query of line 100 failed ("nolist"), the malloc of line 103 failed
\* ("nomem"), the call of line 109 failed ("nofetch"), or none of them did;
\* skip: the names in whose iteration a call failed, noname: those of them
\* for which it was the malloc of the name (the only call made for a name
\* without the prefix)
Read ==
    /\ pc = "read"
    /\ \E how \in IF faults > 0 THEN {"nolist", "nomem", "nofetch", "ok"} ELSE {"ok"} :
         IF ReadResult(how) < 0
         THEN /\ ret' = EX_DATAERR /\ pc' = "cleanup"
              /\ faults' = faults - 1
              /\ mem' = [mem EXCEPT !.read = how, !.ops = @ \cup {"list"}]
              /\ UNCHANGED <<xlist, snap>>
         ELSE IF how = "nolist"
         THEN /\ ret' = ret /\ pc' = "afp"
              /\ faults' = faults - 1
              /\ xlist' = <<>> /\ snap' = <<>>
              /\ mem' = [mem EXCEPT !.read = how, !.ops = @ \cup {"list"}]
         ELSE \E skip \in {sk \in SUBSET (1..Len(storage[cur])) : Cardinality(sk) <= faults} :
                \E noname \in {nn \in SUBSET skip :
                                 \A k \in skip : HasPrefix(storage[cur][k].name) \/ k \in nn} :
                  /\ ret' = ret /\ pc' = "afp"
                  /\ faults' = faults - Cardinality(skip)
                  /\ xlist' = get_extended_attributes(storage[cur], skip)
                  /\ snap' = xlist'
                  /\ mem' = [mem EXCEPT
                        !.read = how,
                        !.failed = skip,
                        !.ops = @ \cup {"list"}
                                  \cup (IF \E k \in 1..Len(storage[cur]) :
                                             HasPrefix(storage[cur][k].name) /\ k \notin noname
                                        THEN {"get"} ELSE {}),
                        !.live = {ListBuf}
                                 \cup UNION {BlocksOf(xlist'[k]) : k \in 1..Len(xlist')},
                        !.stores = {NameTerminator(storage[cur][k].name) :
                                      k \in (1..Len(storage[cur])) \ noname}]
    /\ UNCHANGED <<optsv, fdtab, env, flags, attr, path, rp, mret, walkv, caller, cur, fd, setret,
                   afp_list, append_list, loopv,
                   run, start, prev, writes, visited, results, pass_ret, out>>

\* lines 382-383
GetAfpList ==
    /\ pc = "afp" /\ (Has(F_CHECK_AFP_EA) \/ Has(F_FIX_AFP_EA))
    /\ afp_list' = get_afp_list(xlist)
    /\ i' = 1 /\ l_ret' = 0 /\ l_setret' = 0
    /\ pc' = "fix_afp"
    /\ UNCHANGED <<optsv, resv, env, flags, attr, path, rp, mret, walkv, caller, cur, fd, ret,
                   setret, xlist, append_list, histv>>

\* neither -c nor -f: line 382 is false
NoAfp ==
    /\ pc = "afp" /\ ~(Has(F_CHECK_AFP_EA) \/ Has(F_FIX_AFP_EA))
    /\ pc' = "append"
    /\ UNCHANGED <<optsv, resv, env, flags, attr, path, rp, mret, walkv, cyclev, loopv, histv>>

\* one iteration of the loop of fix_afp_list, lines 220-247
FixAfpStep ==
    /\ pc = "fix_afp" /\ i <= Len(afp_list)
    /\ LET x == afp_list[i]
           rec == xlist[x]
           r1 == IF Has(F_CHECK_AFP_EA) THEN BitOr(l_ret, EX_EA_CORRUPTED) ELSE l_ret
           o1 == IF Has(F_CHECK_AFP_EA) /\ Has(F_VERBOSE)
                 THEN Append(out, <<"is corrupted", cur, rec.name>>) ELSE out
       IN IF AfpWrites(flags)
          THEN \E ok \in Outcomes :
                 LET val == Repaired(rec.value)
                     data == SubSeq(val, 1, rec.length)
                     sr == IF ok THEN rec.length ELSE -1
                 IN /\ xlist' = [xlist EXCEPT ![x].value = val]
                    /\ storage' = IF ok
                                  THEN [storage EXCEPT ![cur] = SetAttr(@, rec.name, data)]
                                  ELSE storage
                    /\ writes' = Append(writes, Write(cur, "afp", rec.name, data, ok))
                    /\ l_setret' = sr
                    /\ faults' = Spent(ok)
                    /\ l_ret' = SetResult(r1, sr)
                    /\ out' = IF Reported(sr, flags) /\ Has(F_VERBOSE)
                              THEN Append(o1, <<"is fixed", cur, rec.name>>) ELSE o1
                    /\ mem' = [mem EXCEPT !.stores = @ \cup {Store(rec.length, 0)},
                                          !.ops = @ \cup {"set"}]
          ELSE /\ l_ret' = r1
               /\ out' = IF Has(F_FIX_AFP_EA) /\ Reported(l_setret, flags) /\ Has(F_VERBOSE)
                         THEN Append(o1, <<"is fixed", cur, rec.name>>) ELSE o1
               /\ UNCHANGED <<xlist, storage, writes, l_setret, faults, mem>>
    /\ i' = i + 1
    /\ UNCHANGED <<optsv, fdtab, kind, denied, stdin, argv, mainv, walkv, caller, cur, fd, ret, setret,
                   afp_list, append_list,
                   run, start, prev, snap, visited, results, pass_ret>>

\* fix_afp_list returns, lines 249 and 384-388
FixAfpReturn ==
    /\ pc = "fix_afp" /\ i > Len(afp_list)
    /\ setret' = l_ret /\ ret' = l_ret
    /\ pass_ret' = [pass_ret EXCEPT !.afp = <<l_ret>>]
    /\ pc' = "append"
    /\ UNCHANGED <<optsv, resv, env, flags, attr, path, rp, mret, walkv, caller, cur, fd,
                   xlist, afp_list, append_list, loopv,
                   faults, run, start, prev, snap, writes, visited, results, out>>

\* lines 391-392
GetAppendList ==
    /\ pc = "append" /\ (Has(F_APPEND_NULL_ALL) \/ Has(F_APPEND_NULL))
    /\ append_list' = get_append_list(xlist, attr)
    /\ i' = 1 /\ l_ret' = 0 /\ l_setret' = 0
    /\ pc' = "fix_append"
    /\ UNCHANGED <<optsv, resv, env, flags, attr, path, rp, mret, walkv, caller, cur, fd, ret,
                   setret, xlist, afp_list, histv>>

\* neither -a nor -n: line 391 is false
NoAppend ==
    /\ pc = "append" /\ ~(Has(F_APPEND_NULL_ALL) \/ Has(F_APPEND_NULL))
    /\ pc' = "cleanup"
    /\ UNCHANGED <<optsv, resv, env, flags, attr, path, rp, mret, walkv, cyclev, loopv, histv>>

\* one iteration of the loop of fix_append_list, lines 295-330; a failed
\* malloc returns -1 at once, which do_ea_stuff_single turns into EX_DATAERR
\* (lines 393-396)
FixAppendStep ==
    /\ pc = "fix_append" /\ i <= Len(append_list)
    /\ LET x == append_list[i]
           rec == xlist[x]
       IN IF AppendWrites(flags)
          THEN \E alloc \in Outcomes :
                 IF ~alloc
                 THEN /\ setret' = -1 /\ ret' = EX_DATAERR
                      /\ faults' = faults - 1
                      /\ pass_ret' = [pass_ret EXCEPT !.app = <<-1>>]
                      /\ pc' = "cleanup"
                      /\ UNCHANGED <<xlist, storage, writes, loopv, out, mem>>
                 ELSE \E junk \in HeapBytes, ok \in Outcomes :
                        LET length == rec.length + 1
                            buf == Grown(rec.value, rec.length, junk)
                            data == SubSeq(buf, 1, length)
                            sr == IF ok THEN length ELSE -1
                        IN /\ xlist' = [xlist EXCEPT ![x].value = buf,
                                                     ![x].length = length]
                           /\ storage' = IF ok
                                         THEN [storage EXCEPT
                                                 ![cur] = SetAttr(@, rec.name, data)]
                                         ELSE storage
                           /\ writes' = Append(writes,
                                               Write(cur, "append", rec.name, data, ok))
                           /\ l_setret' = sr
                           /\ faults' = Spent(ok)
                           /\ l_ret' = SetResult(l_ret, sr)
                           /\ out' = IF Reported(sr, flags) /\ Has(F_VERBOSE)
                                     THEN Append(out, <<"null byte appended", cur, rec.name>>)
                                     ELSE out
                           /\ mem' = [Free(mem, {Block("value", rec.name, rec.length)})
                                        EXCEPT !.live = @ \cup {Block("value", rec.name, length)},
                                               !.stores = @ \cup {Store(length, length)},
                                               !.ops = @ \cup {"set"}]
                           /\ i' = i + 1
                           /\ UNCHANGED <<setret, ret, pass_ret, pc>>
          ELSE /\ out' = IF Has(F_APPEND_NULL) /\ Reported(l_setret, flags) /\ Has(F_VERBOSE)
                         THEN Append(out, <<"null byte appended", cur, rec.name>>)
                         ELSE out
               /\ i' = i + 1
               /\ UNCHANGED <<xlist, storage, writes, l_ret, l_setret,
                              setret, ret, pass_ret, pc, faults, mem>>
    /\ UNCHANGED <<optsv, fdtab, kind, denied, stdin, argv, flags, attr, path, rp, mret, walkv,
                   caller, cur, fd, afp_list, append_list,
                   run, start, prev, snap, visited, results>>

\* fix_append_list returns, lines 332 and 393-397
FixAppendReturn ==
    /\ pc = "fix_append" /\ i > Len(append_list)
    /\ setret' = l_ret /\ ret' = l_ret
    /\ pass_ret' = [pass_ret EXCEPT !.app = <<l_ret>>]
    /\ pc' = "cleanup"
    /\ UNCHANGED <<optsv, resv, env, flags, attr, path, rp, mret, walkv, caller, cur, fd,
                   xlist, afp_list, append_list, loopv,
                   faults, run, start, prev, snap, writes, visited, results, out>>

AccumulateLast(rv, r) == r
\* rval |= do_ea_stuff_single(...), line 432
Accumulate(rv, r) == BitOr(rv, r)

\* lines 400-407, and the use the caller makes of the returned code
\* (main, line 548; do_ea_stuff_recursive, line 432)
Cleanup ==
    /\ pc = "cleanup"
    /\ afp_list' = <<>> /\ append_list' = <<>> /\ xlist' = <<>>
    /\ IF fd > 0
       THEN /\ fdtab' = fdtab \ {fd}
            /\ mem' = [Free(mem, UNION {BlocksOf(xlist[k]) : k \in 1..Len(xlist)})
                         EXCEPT !.closes = @ + 1]
       ELSE /\ fdtab' = fdtab
            /\ mem' = Free(mem, UNION {BlocksOf(xlist[k]) : k \in 1..Len(xlist)})
    /\ results' = Append(results, ret)
    /\ IF caller = "main"
       THEN mret' = ret /\ rval' = rval /\ pc' = "exit"
       ELSE mret' = mret /\ rval' = Accumulate(rval, ret) /\ pc' = "fts"
    /\ UNCHANGED <<optsv, env, flags, attr, path, rp, fts, tree, caller, cur, fd, ret, setret, loopv,
                   faults, run, start, prev, snap, writes, visited, pass_ret, out>>

\* the same command line is run once more over what the last run left
Rerun ==
    /\ pc = "exit" /\ run < MaxRuns
    /\ prev' = Append(prev, [start |-> start, writes |-> writes, mret |-> mret])
    /\ run' = run + 1 /\ start' = storage /\ faults' = MaxFaults
    /\ pc' = "stdin" /\ path' = NULL /\ rp' = NULL /\ mret' = 0
    /\ fts' = "none" /\ tree' = <<>> /\ rval' = 0
    /\ caller' = "main" /\ cur' = NULL /\ fd' = 0 /\ ret' = 0 /\ setret' = 0
    /\ xlist' = <<>> /\ afp_list' = <<>> /\ append_list' = <<>>
    /\ i' = 0 /\ l_ret' = 0 /\ l_setret' = 0
    /\ snap' = <<>> /\ writes' = <<>> /\ visited' = <<>> /\ results' = <<>>
    /\ pass_ret' = [afp |-> <<>>, app |-> <<>>] /\ out' = <<>>
    /\ fdtab' = InitFds /\ mem' = InitMem
    /\ UNCHANGED <<optsv, env, flags, attr>>

Cycle ==
    \/ Open \/ Read \/ GetAfpList \/ NoAfp \/ FixAfpStep \/ FixAfpReturn
    \/ GetAppendList \/ NoAppend \/ FixAppendStep \/ FixAppendReturn \/ Cleanup

\* a command line without -r
Next == MainReadStdin \/ MainRealpath \/ StartSingle \/ Cycle

Spec == Init /\ [][Next]_vars

\* a command line without -r, run up to MaxRuns times
NextRerun == Next \/ Rerun

SpecRerun == InitRerun /\ [][NextRerun]_vars

\* a command line from its first option word on
NextOpts == MainArgc \/ Getopt \/ Next \/ StartRecursive

SpecOpts == InitOpts /\ [][NextOpts]_vars

\* any command line, with or without -r, over a directory tree
NextWalk == Next \/ StartRecursive \/ FtsRead \/ FtsClose

SpecWalk == InitWalk /\ [][NextWalk]_vars

(* ---------------------------- properties ------------------------------ *)
\* the elements of a sequence
Range(s) == {s[k] : k \in 1..Len(s)}

\* the corruption signature as the specification words it: at least three
\* bytes, the first three being 0x00 'F' 'P'
Marked(v) == Len(v) >= 3 /\ SubSeq(v, 1, 3) = <<ChNul, ChF, ChP>>

\* the extattr_set_fd calls one pass issued under one name
Calls(pass, n) == {k \in 1..Len(writes) : writes[k].pass = pass /\ writes[k].name = n}

\* a cycle that opened its object and read the attribute set
InCycle == pc \in {"afp", "fix_afp", "append", "fix_append", "cleanup"}

\* C1: get_afp_list selects a record if and only if its length is at least 3
\* and its value begins 0x00 'F' 'P', each selected record once and in set
\* order, and leaves every record's name, value and length as read.
C1_Classifier ==
    pc = "fix_afp" =>
        /\ \A k \in 1..Len(snap) :
             k \in Range(afp_list) <=> (snap[k].length >= 3 /\ Marked(snap[k].value))
        /\ \A a, b \in 1..Len(afp_list) : a < b => afp_list[a] < afp_list[b]
        /\ Range(afp_list) \subseteq 1..Len(snap)
        /\ i = 1 => xlist = snap

\* a set of two three-byte records of which the classifier took exactly one
C1_Witness ==
    /\ pc = "fix_afp" /\ i = 1
    /\ Len(xlist) = 2 /\ Len(afp_list) = 1
    /\ \A k \in 1..2 : xlist[k].length = 3

\* C2: under -C no extattr_set_fd call is issued in any mode, the stored
\* attributes stay what they were when the run began, and the records in
\* memory stay what was read.
C2_DryRun ==
    Has(F_DRY_RUN) =>
        /\ writes = <<>>
        /\ storage = start
        /\ InCycle => xlist = snap

\* a dry run of -f with -a that passed a corrupted record through both loops
C2_Witness ==
    /\ Has(F_DRY_RUN) /\ Has(F_FIX_AFP_EA) /\ Has(F_APPEND_NULL_ALL)
    /\ pc = "cleanup"
    /\ afp_list # <<>> /\ append_list # <<>>
    /\ pass_ret.afp # <<>> /\ pass_ret.app # <<>>

\* C3: when the check/fix pass and the append pass both ran, the code
\* do_ea_stuff_single returns is the bitwise OR of what the two passes returned.
C3_ResultIsOr ==
    (pc = "exit" /\ pass_ret.afp # <<>> /\ pass_ret.app # <<>> /\ pass_ret.app[1] >= 0)
        => mret = BitOr(pass_ret.afp[1], pass_ret.app[1])

\* the value stored under name n on PathE when this run began
StartValue(n) ==
    LET at == {k \in 1..Len(start[PathE]) : start[PathE][k].name = n}
    IN start[PathE][CHOOSE k \in at : TRUE].value

\* C4: a successful append without -C (and without -f before it) stores the
\* value that was read followed by one byte 0x00: one byte more than before.
C4_AppendsNul ==
    \A k \in 1..Len(writes) :
        (writes[k].pass = "append" /\ writes[k].ok /\ ~Has(F_FIX_AFP_EA))
            => writes[k].data = StartValue(writes[k].name) \o <<ChNul>>

\* C5: -c issues no extattr_set_fd call (none at all when no append was
\* asked for); -f without -C has, once fix_afp_list returned, issued exactly
\* one call for each record of the set that is corrupted and none for any other.
C5_WriteCalls ==
    /\ Has(F_CHECK_AFP_EA) => \A k \in 1..Len(writes) : writes[k].pass # "afp"
    /\ (Has(F_CHECK_AFP_EA) /\ ~Has(F_APPEND_NULL)) => writes = <<>>
    /\ (Has(F_FIX_AFP_EA) /\ ~Has(F_DRY_RUN) /\ pass_ret.afp # <<>>) =>
         /\ \A k \in 1..Len(snap) :
              Cardinality(Calls("afp", snap[k].name))
                = IF Marked(snap[k].value) THEN 1 ELSE 0
         /\ \A k \in 1..Len(writes) :
              writes[k].pass = "afp" => \E r \in 1..Len(snap) : snap[r].name = writes[k].name

\* -f over a set with one corrupted record and one three-byte record that is not
C5_Witness ==
    /\ Has(F_FIX_AFP_EA) /\ ~Has(F_DRY_RUN) /\ pass_ret.afp # <<>>
    /\ Len(snap) = 2
    /\ \E a, b \in 1..2 : /\ Marked(snap[a].value)
                          /\ ~Marked(snap[b].value) /\ Len(snap[b].value) = 3
    /\ Len(writes) = 1

\* the run before this one
Last == prev[Len(prev)]

\* the last run was -f without -C and without append, and each record that was
\* corrupted when it began was written back with success
LastRunFixed ==
    /\ prev # <<>>
    /\ Has(F_FIX_AFP_EA) /\ ~Has(F_DRY_RUN) /\ ~Has(F_APPEND_NULL)
    /\ \A k \in 1..Len(Last.start[PathE]) :
         Marked(Last.start[PathE][k].value) =>
            \E w \in 1..Len(Last.writes) :
               Last.writes[w].name = Last.start[PathE][k].name /\ Last.writes[w].ok

\* C6: after a -f run whose writes succeeded, every attribute that was
\* corrupted is stored with byte 0 replaced by 'A' and nothing else changed,
\* and the next run selects no record as corrupted and issues no write.
C6_RepairIdempotent ==
    LastRunFixed =>
        /\ Len(start[PathE]) = Len(Last.start[PathE])
        /\ \A k \in 1..Len(start[PathE]) :
             LET old == Last.start[PathE][k]
             IN /\ start[PathE][k].name = old.name
                /\ start[PathE][k].value =
                     IF Marked(old.value)
                     THEN <<ChA>> \o SubSeq(old.value, 2, Len(old.value))
                     ELSE old.value
        /\ afp_list = <<>>
        /\ writes = <<>>

\* the second run, past its classification, after a first run that repaired
\* a corrupted record
C6_Witness ==
    /\ LastRunFixed /\ Last.writes # <<>>
    /\ pc = "append" /\ pass_ret.afp # <<>> /\ snap # <<>>

\* C7: with only -c or only -f and no append, a cycle that opened and read
\* its object returns 1 under -c when a record is corrupted and 0 when none
\* is, and returns 0 under -f (with or without -C) when no write failed.
C7_ResultCodes ==
    (pc = "exit" /\ pass_ret.afp # <<>> /\ ~Has(F_APPEND_NULL)) =>
        /\ Has(F_CHECK_AFP_EA) =>
             mret = IF \E k \in 1..Len(snap) : Marked(snap[k].value) THEN 1 ELSE 0
        /\ (Has(F_FIX_AFP_EA) /\ \A k \in 1..Len(writes) : writes[k].ok) => mret = 0

\* -c returned 1 for a set with a corrupted record of exactly three bytes
C7_Witness ==
    /\ pc = "exit" /\ Has(F_CHECK_AFP_EA) /\ ~Has(F_APPEND_NULL)
    /\ pass_ret.afp # <<>> /\ mret = 1
    /\ \E k \in 1..Len(snap) : Marked(snap[k].value) /\ snap[k].length = 3

(* --------------------------- the tree walk ---------------------------- *)
\* p is r, or lies below r behind directories that exist and can be read
RECURSIVE Reaches(_, _)
Reaches(r, p) ==
    /\ KindOf(p) # "none"
    /\ \/ p = r
       \/ \E q \in Paths :
            /\ \E n \in EntryNames : p = Child(q, n)
            /\ KindOf(q) = "dir" /\ q \notin denied
            /\ Reaches(r, q)

\* how often x occurs in s
Count(s, x) == Cardinality({k \in 1..Len(s) : s[k] = x})

\* a sorts before b, byte by byte
RECURSIVE LexLess(_, _)
LexLess(a, b) ==
    IF b = <<>> THEN FALSE
    ELSE IF a = <<>> THEN TRUE
    ELSE IF Head(a) # Head(b) THEN Head(a) < Head(b)
    ELSE LexLess(Tail(a), Tail(b))

\* p and q are entries n and m of one directory, n sorting before m
SiblingsInOrder(p, q) ==
    \A d \in Paths, n, m \in EntryNames :
        (p = Child(d, n) /\ q = Child(d, m)) => LexLess(n, m)

\* C8: a finished walk has called do_ea_stuff_single exactly once for every
\* file and directory that can be reached from a root it was given, and the
\* entries of one directory were visited in lexicographic order of their names.
C8_WalkOnceInOrder ==
    fts = "closed" =>
        /\ \A p \in Paths :
             (\E k \in 1..Len(argv) : Reaches(argv[k], p)) => Count(visited, p) = 1
        /\ \A a, b \in 1..Len(visited) :
             (a < b /\ visited[a] # visited[b]) => SiblingsInOrder(visited[a], visited[b])

\* the pre-order listing of the files and directories at and below p, the
\* entries of each readable directory in the order of their names (a, b)
RECURSIVE Traverse(_)
Traverse(p) ==
    IF KindOf(p) = "none" THEN <<>>
    ELSE IF KindOf(p) = "file" \/ p \in denied THEN <<p>>
    ELSE <<p>> \o Traverse(Child(p, NameA)) \o Traverse(Child(p, NameB))

RECURSIVE TraverseAll(_)
TraverseAll(rs) == IF rs = <<>> THEN <<>> ELSE Traverse(Head(rs)) \o TraverseAll(Tail(rs))

IsPathD(r) == r = PathD
IsPathE(r) == r = PathE
\* the positional arguments in collation order
ArgsInOrder == SelectSeq(argv, IsPathD) \o SelectSeq(argv, IsPathE)

\* the bitwise OR of all elements of s
RECURSIVE OrAll(_)
OrAll(s) == IF s = <<>> THEN 0 ELSE BitOr(Head(s), OrAll(Tail(s)))

\* some attribute stored on p carries the corruption signature
HoldsMarked(p) == \E k \in 1..Len(storage[p]) : Marked(storage[p][k].value)

\* C9: the code a walk returns is the bitwise OR of the codes of all objects
\* it processed; whatever failed on the way, the walk processes every file and
\* directory of the traversal; and -c over a tree with a corrupted file, with
\* no call failing, returns 1.
C9_WalkAggregates ==
    /\ (fts = "open" /\ pc = "fts") =>
         /\ Len(results) = Len(visited)
         /\ rval = OrAll(results)
    /\ fts = "closed" =>
         /\ visited = TraverseAll(ArgsInOrder)
         /\ Len(results) = Len(visited)
         /\ mret = OrAll(results)
         /\ (flags = {F_CHECK_AFP_EA, F_RECURSIVE} /\ faults = MaxWalkFaults
               /\ \E k \in 1..Len(visited) : HoldsMarked(visited[k]))
              => mret = EX_EA_CORRUPTED

\* a finished walk in which an open failed on one object and a later object
\* was still processed and found corrupted
C9_Witness ==
    /\ fts = "closed"
    /\ \E a, b \in 1..Len(results) :
         a < b /\ results[a] = EX_OSERR /\ results[b] = EX_EA_CORRUPTED
    /\ mret = EX_OSERR

\* the path on stdin: the bytes read less the last one
StdinPath == SubSeq(stdin.data, 1, Len(stdin.data) - 1)

\* p is r or lies below r
Under(p, r) ==
    \/ p = r
    \/ Len(p) > Len(r) + 1 /\ SubSeq(p, 1, Len(r) + 1) = r \o <<ChSlash>>

\* C10: when stdin is not a terminal and a line was read from it, that path
\* is the one processed: do_ea_stuff_single is called with it and, under -r,
\* only with it and what lies below it, the walk starting at it.
C10_StdinPrecedence ==
    (~stdin.tty /\ Len(stdin.data) > 0) =>
        /\ pc # "stdin" => path = StdinPath
        /\ \A k \in 1..Len(visited) : Under(visited[k], StdinPath)
        /\ fts = "closed" => (visited # <<>> /\ visited[1] = StdinPath)

(* --------------------------- the option words ------------------------- *)
\* C11: at every point of the getopt loop and after it, check mode and fix
\* mode are not both set and all-append mode is not set together with a name;
\* right after -c only check is set and right after -f only fix; right after
\* -a both append bits are set and no name is left; right after -n the
\* all-mode bit is clear and the append bit is set.
C11_FlagExclusion ==
    /\ ~(Has(F_CHECK_AFP_EA) /\ Has(F_FIX_AFP_EA))
    /\ ~(Has(F_APPEND_NULL_ALL) /\ attr # NULL)
    /\ Has(F_APPEND_NULL_ALL) => Has(F_APPEND_NULL)
    /\ (pc = "getopt" /\ ch = "c") => (Has(F_CHECK_AFP_EA) /\ ~Has(F_FIX_AFP_EA))
    /\ (pc = "getopt" /\ ch = "f") => (Has(F_FIX_AFP_EA) /\ ~Has(F_CHECK_AFP_EA))
    /\ (pc = "getopt" /\ ch = "a") =>
         (Has(F_APPEND_NULL_ALL) /\ Has(F_APPEND_NULL) /\ attr = NULL)
    /\ (pc = "getopt" /\ ch = "n") => (~Has(F_APPEND_NULL_ALL) /\ Has(F_APPEND_NULL))

\* the loop has just handled -n as the last of three option words, one of the
\* earlier ones being -f
C11_Witness ==
    /\ pc = "getopt" /\ ch = "n" /\ optv = <<>>
    /\ attr = AttrRsrc /\ Has(F_APPEND_NULL) /\ ~Has(F_APPEND_NULL_ALL)
    /\ Has(F_FIX_AFP_EA) /\ Has(F_DRY_RUN)

(* --------------------------- failing calls ---------------------------- *)
\* the extattr_set_fd calls of one pass that failed
FailedIn(pass) == {k \in 1..Len(writes) : writes[k].pass = pass /\ ~writes[k].ok}

\* the result code r carries the bit EX_EA_CORRUPTED
HasBit(r) == r >= 0 /\ r % 2 = 1

\* C12: when extattr_set_fd fails for a selected record, in the repair pass as
\* in the append pass, the pass's result carries the failure bit from then on,
\* no "is fixed" / "null byte appended" line is printed for that record, and
\* the pass, unless a malloc fails, still issues a call for every record of
\* its selection.
C12_WriteFailureContinues ==
    /\ \A k \in FailedIn("afp") :
         /\ pc = "fix_afp" => HasBit(l_ret)
         /\ pass_ret.afp # <<>> =>
              /\ HasBit(pass_ret.afp[1])
              /\ \A r \in 1..Len(snap) :
                   Marked(snap[r].value) => Calls("afp", snap[r].name) # {}
         /\ <<"is fixed", writes[k].path, writes[k].name>> \notin Range(out)
    /\ \A k \in FailedIn("append") :
         /\ pc = "fix_append" => HasBit(l_ret)
         /\ (pass_ret.app # <<>> /\ pass_ret.app[1] >= 0) =>
              /\ HasBit(pass_ret.app[1])
              /\ \A r \in 1..Len(snap) :
                   (attr = NULL \/ snap[r].name = attr) => Calls("append", snap[r].name) # {}
         /\ <<"null byte appended", writes[k].path, writes[k].name>> \notin Range(out)

\* -a -v over two records: the first call failed, the second was made and
\* succeeded, and only the second record was reported
C12_Witness ==
    /\ pass_ret.app = <<EX_EA_CORRUPTED>> /\ Has(F_VERBOSE)
    /\ Len(writes) = 2
    /\ writes[1].pass = "append" /\ ~writes[1].ok
    /\ writes[2].pass = "append" /\ writes[2].ok
    /\ out = <<<<"null byte appended", writes[2].path, writes[2].name>>>>

(* ----------------------------- resources ------------------------------ *)
\* no call of do_ea_stuff_single is in progress
Idle == pc \in {"start", "getopt", "stdin", "realpath", "dispatch", "fts", "exit"}

\* the last call of do_ea_stuff_single has returned
Returned == Idle /\ visited # <<>> /\ Len(results) = Len(visited)

\* C13: when do_ea_stuff_single has returned, a handle that open returned has
\* been closed exactly once and is no longer open, and after a failed open no
\* close and no extattr_* call was issued; the process holds no object handle
\* between two cycles and at most the one of the current object during a cycle.
C13_Released ==
    /\ Returned =>
         IF fd >= 0
         THEN mem.closes = 1 /\ fd \notin fdtab
         ELSE mem.closes = 0 /\ mem.ops = {}
    /\ (pc = "cleanup" /\ fd < 0) => mem.ops = {}
    /\ Idle => fdtab = InitFds
    /\ ~Idle => fdtab \subseteq InitFds \cup {fd}

\* C14: no block is freed twice, and when do_ea_stuff_single has returned
\* every block malloc'ed during the cycle has been freed: the list of names,
\* each record's name, value and structure, each grown buffer and the value it
\* replaced.
C14_BuffersReleased ==
    /\ mem.twice = {}
    /\ Returned => mem.live = {}

(* ------------------------------ the reader ---------------------------- *)
\* the names of the object, by position, that begin "DosStream." and for
\* which no call failed while the set was read
Kept == {k \in 1..Len(start[PathE]) :
            start[PathE][k].name[1] = "DosStream." /\ k \notin mem.failed}

\* C15: the set get_extended_attributes builds holds one record, with the
\* name, the value and the length of the value, for each attribute whose name
\* begins "DosStream." and for which no call failed, in the order of the
\* enumeration, and no other record.
C15_ReaderSet ==
    (InCycle /\ mem.read = "ok") =>
        /\ Len(snap) = Cardinality(Kept)
        /\ \A j \in 1..Len(snap) :
             \E k \in Kept :
                /\ Cardinality({m \in Kept : m < k}) = j - 1
                /\ snap[j].name = start[PathE][k].name
                /\ snap[j].value = start[PathE][k].value
                /\ snap[j].length = Len(start[PathE][k].value)

\* two streams of which the first was skipped, a call having failed for it,
\* and the second was read
C15_Witness ==
    /\ InCycle /\ mem.read = "ok"
    /\ Len(start[PathE]) = 2 /\ mem.failed = {1}
    /\ \A k \in 1..2 : start[PathE][k].name[1] = "DosStream."
    /\ Len(snap) = 1 /\ snap[1].name = start[PathE][2].name
    /\ "get" \in mem.ops

\* do_ea_stuff_single is returning EX_DATAERR for an object it opened, neither
\* pass having run: get_extended_attributes failed (lines 377-380)
ReadFailed ==
    /\ fd >= 0 /\ ret = EX_DATAERR
    /\ pass_ret.afp = <<>> /\ pass_ret.app = <<>>

\* the size query of the enumeration failed: the set is empty, no
\* extattr_set_fd call is issued, and the object's result is 0
NoListMeansEmpty ==
    mem.read = "nolist" =>
        /\ InCycle => (xlist = <<>> /\ snap = <<>>)
        /\ writes = <<>>
        /\ ret = 0
        /\ pc = "exit" => mret = 0

\* C16 (as stated): a failed size query of the enumeration gives an empty set,
\* no write and result 0 in every mode, and the reader fails, the object's
\* result being EX_DATAERR, only when the malloc of the enumeration buffer fails.
C16_EnumerationFailure ==
    /\ NoListMeansEmpty
    /\ pc \in {"cleanup", "exit"} => (ReadFailed <=> mem.read = "nomem")

\* C16 (amended): a failed size query of the enumeration gives an empty set,
\* no write and result 0 in every mode, and the reader fails, the object's
\* result being EX_DATAERR, exactly when the malloc of the enumeration buffer
\* or the extattr_list_fd call that fills the buffer fails.
C16_EnumerationFailureAmended ==
    /\ NoListMeansEmpty
    /\ pc \in {"cleanup", "exit"} => (ReadFailed <=> mem.read \in {"nomem", "nofetch"})

\* -c returned 0 for a file with a corrupted stream, the size query failing
C16_Witness ==
    /\ pc = "exit" /\ mem.read = "nolist" /\ Has(F_CHECK_AFP_EA)
    /\ \E k \in 1..Len(storage[PathE]) :
         storage[PathE][k].name = AttrRsrc /\ Marked(storage[PathE][k].value)
    /\ mret = 0 /\ pass_ret.afp = <<0>>

(* -------------------------- the append selection ---------------------- *)
\* the records of the set that carry the name given with -n
Named == {k \in 1..Len(snap) : snap[k].name = attr}

\* C17: without a name the append selection is every record of the set in
\* set order; with a name it is the first record of that name and nothing
\* else, and is empty when no record has the name, in which case the pass
\* issues no call and returns 0, as does do_ea_stuff_single.
C17_AppendSelection ==
    /\ pc = "fix_append" =>
         IF attr = NULL
         THEN append_list = [k \in 1..Len(snap) |-> k]
         ELSE IF Named = {}
         THEN append_list = <<>>
         ELSE /\ Len(append_list) = 1
              /\ append_list[1] \in Named
              /\ \A k \in Named : append_list[1] <= k
    /\ (attr # NULL /\ Named = {} /\ pass_ret.app # <<>>) =>
         /\ \A k \in 1..Len(writes) : writes[k].pass # "append"
         /\ pass_ret.app = <<0>>
         /\ ret = 0

\* -n DosStream.rsrc over two streams of which the second has that name
C17_Witness ==
    /\ pc = "fix_append" /\ attr = AttrRsrc
    /\ Len(snap) = 2 /\ snap[2].name = AttrRsrc
    /\ append_list = <<2>>

\* the malloc of fix_append_list failed (line 305): the pass returned -1
AppendAborted == pass_ret.app = <<-1>>

\* C18: when the malloc of the grown buffer fails for a selected record, that
\* record keeps the length and the value it had and is not written, nor is
\* any later record of the selection (the calls of the pass are those for the
\* records before it); the object's result is EX_DATAERR; and the cycle
\* frees every record and closes the handle before it returns.
C18_AppendAllocFailure ==
    AppendAborted =>
        /\ pc = "cleanup" =>
             /\ xlist[append_list[i]].length = snap[append_list[i]].length
             /\ \A b \in 1..snap[append_list[i]].length :
                  xlist[append_list[i]].value[b] \in {snap[append_list[i]].value[b], ChA}
             /\ \A j \in i..Len(append_list) :
                  Calls("append", xlist[append_list[j]].name) = {}
             /\ Cardinality({k \in 1..Len(writes) : writes[k].pass = "append"}) = i - 1
        /\ ret = EX_DATAERR
        /\ pc = "exit" =>
             /\ mret = EX_DATAERR
             /\ \A b \in mem.live : b.kind \notin {"name", "value", "xptr"}
             /\ mem.closes = 1 /\ fd \notin fdtab

(* ------------------------------ the heap ------------------------------ *)
\* C19: every store into a malloc'ed block is at an offset smaller than the
\* size of the block: the terminator of a name in the reader, the byte 'A' of
\* the repair, and the terminator of the grown buffer in the append pass.
C19_StoresInBounds ==
    \A st \in mem.stores : st.index >= 0 /\ st.index < st.size

(* ------------------------------ the frame ----------------------------- *)
\* the name n is that of a record of the set that was read
ReadAs(n) == \E r \in 1..Len(snap) : snap[r].name = n

\* C20: every extattr_set_fd call is issued under the name of a record of the
\* set that was read, which begins "DosStream."; a call of the repair pass is
\* for a record that was classified corrupted; a call of the append pass with
\* a name given is for the record of that name; and the object carries the
\* attributes it carried, each one for which no call succeeded with the value
\* it had.
C20_WriteFrame ==
    /\ \A k \in 1..Len(writes) :
         /\ ReadAs(writes[k].name)
         /\ writes[k].name[1] = "DosStream."
         /\ writes[k].path = cur
         /\ writes[k].pass = "afp" =>
              \E r \in 1..Len(snap) :
                 snap[r].name = writes[k].name /\ Marked(snap[r].value)
         /\ (writes[k].pass = "append" /\ attr # NULL) => writes[k].name = attr
    /\ \A p \in Paths :
         /\ Len(storage[p]) = Len(start[p])
         /\ \A a \in 1..Len(start[p]) :
              /\ storage[p][a].name = start[p][a].name
              /\ (\A k \in 1..Len(writes) :
                     ~(writes[k].ok /\ writes[k].path = p
                       /\ writes[k].name = start[p][a].name))
                   => storage[p][a].value = start[p][a].value

\* -f -n DosStream.rsrc has rewritten the stream and left an attribute
\* without the prefix, whose value carries the signature, as it was
C20_Witness ==
    /\ pc = "exit" /\ Has(F_FIX_AFP_EA) /\ attr = AttrRsrc
    /\ Len(writes) = 2 /\ writes[1].ok /\ writes[2].ok
    /\ \E a \in 1..Len(storage[PathE]) :
         /\ storage[PathE][a].name = AttrOther
         /\ Marked(storage[PathE][a].value)

=============================================================================
